---------------------------- MODULE Spec2Model ----------------------------
(***************************************************************************)
(* Model of the lens calculator of src/components/LensCalculator.tsx: the  *)
(* input record held by the component, the input-change handler, and the   *)
(* calculation engine (the useMemo body with its inner calculatePoint).    *)
(*                                                                         *)
(* Numbers.  The program computes with the JavaScript type number (IEEE    *)
(* 754 binary64).  A number is modelled as a record                        *)
(*      [kind, n, d, e]                                                    *)
(* kind = "nan" is NaN, kind = "inf" is +Infinity (n = 1) or -Infinity     *)
(* (n = -1), and kind = "fin" is the finite value (n / d) * 2^e, kept in   *)
(* normal form: d > 0, n and d odd and coprime, and zero is 0/1 * 2^0.     *)
(* Products and quotients are exact in the mantissa n / d (the rounding    *)
(* of the mantissa to 53 bits is not modelled), and they have binary64's   *)
(* range: a result of magnitude 2^1024 or more is an Infinity, a result    *)
(* of magnitude 2^-1075 or less is zero.  On powers of two the model is    *)
(* binary64 exactly.  The sign of zero is not modelled (-0 === 0).         *)
(***************************************************************************)
EXTENDS Integers, Sequences, FiniteSets

\* Largest binary exponent of a finite binary64 number: 2^1023 is finite, 2^1024 is not.
MaxExp == 1023

\* Binary exponent of the smallest positive binary64 number, 2^-1074.
MinExp == -1074

Abs(i) == IF i < 0 THEN -i ELSE i

RECURSIVE Gcd(_, _)
Gcd(a, b) == IF b = 0 THEN a ELSE Gcd(b, a % b)

\* The number of factors two of i > 0.
RECURSIVE Twos(_)
Twos(i) == IF i % 2 = 0 THEN 1 + Twos(i \div 2) ELSE 0

NaN == [kind |-> "nan", n |-> 0, d |-> 1, e |-> 0]

PosInf == [kind |-> "inf", n |-> 1, d |-> 1, e |-> 0]

NegInf == [kind |-> "inf", n |-> -1, d |-> 1, e |-> 0]

Zero == [kind |-> "fin", n |-> 0, d |-> 1, e |-> 0]

Infinity(sign) == IF sign < 0 THEN NegInf ELSE PosInf

Sign(x) == IF x.n < 0 THEN -1 ELSE IF x.n > 0 THEN 1 ELSE 0

\* m * 2^s >= c for integers m, c >= 1 and any integer s, without leaving 32 bits.
GeqScaled(m, s, c) ==
    IF s >= 0
    THEN s >= 31 \/ m >= ((c - 1) \div (2 ^ s)) + 1
    ELSE -s < 31 /\ (m \div (2 ^ (-s))) >= c

\* The finite value (n / d) * 2^e, n # 0, d > 0, has magnitude 2^k or more.
MagnitudeGeq(n, d, e, k) == GeqScaled(Abs(n), e - k, d)

\* The exact value (n / d) * 2^e, d > 0, in normal form (no range applied).
Exact(n, d, e) ==
    IF n = 0 THEN Zero
    ELSE LET tn == Twos(Abs(n))
             td == Twos(d)
             n1 == n \div (2 ^ tn)
             d1 == d \div (2 ^ td)
             g  == Gcd(Abs(n1), d1)
         IN  [kind |-> "fin", n |-> n1 \div g, d |-> d1 \div g, e |-> e + tn - td]

\* A finite exact value brought into binary64's range: overflow gives an Infinity,
\* underflow gives zero (2^-1075 itself is a tie and rounds to the even neighbour, zero).
ToRange(x) ==
    IF x.n = 0 THEN Zero
    ELSE IF MagnitudeGeq(x.n, x.d, x.e, MaxExp + 1) THEN Infinity(x.n)
    ELSE IF ~MagnitudeGeq(x.n, x.d, x.e, MinExp - 1) \/ (Abs(x.n) = 1 /\ x.d = 1 /\ x.e = MinExp - 1)
         THEN Zero
    ELSE x

\* The number (n / d) * 2^e as the program holds it.
Num(n, d, e) == ToRange(Exact(n, d, e))

\* x * y of JavaScript.
Mul(x, y) ==
    IF x.kind = "nan" \/ y.kind = "nan" THEN NaN
    ELSE IF x.kind = "inf" \/ y.kind = "inf"
         THEN IF Sign(x) * Sign(y) = 0 THEN NaN ELSE Infinity(Sign(x) * Sign(y))
    ELSE Num(x.n * y.n, x.d * y.d, x.e + y.e)

\* x / y of JavaScript: a zero divisor raises nothing, it gives an Infinity or NaN.
Div(x, y) ==
    IF x.kind = "nan" \/ y.kind = "nan" THEN NaN
    ELSE IF x.kind = "inf"
         THEN IF y.kind = "inf" THEN NaN
              ELSE Infinity(IF Sign(y) < 0 THEN -Sign(x) ELSE Sign(x))
    ELSE IF y.kind = "inf" THEN Zero
    ELSE IF y.n = 0
         THEN IF x.n = 0 THEN NaN ELSE Infinity(Sign(x))
    ELSE Num(Sign(y) * x.n * y.d, x.d * Abs(y.n), x.e - y.e)

\* x > 0 and x <= 0 of JavaScript: both are false of NaN.
Gt0(x) == x.kind # "nan" /\ x.n > 0

Le0(x) == x.kind # "nan" /\ x.n <= 0

IsFinite(x) == x.kind = "fin"

IsNaN(x) == x.kind = "nan"

One == Num(1, 1, 0)

Two == Num(2, 1, 0)

Half == Num(1, 2, 0)


(***************************************************************************)
(* Angles.  Math.atan is strictly increasing and odd, so an angle of       *)
(* -90..90 degrees is held by its tangent: [tan |-> x] is                  *)
(* atan(x) * 180 / PI, which is 0 exactly when x is 0, has the sign of x,  *)
(* is 90 for x = Infinity (finite), and is NaN exactly when x is NaN.      *)
(***************************************************************************)
ZeroDeg == [tan |-> Zero]

AtanDeg(x) == [tan |-> x]

(***************************************************************************)
(* The calculation engine: the body of useMemo, lines 36-121.              *)
(***************************************************************************)
Fields == {"efl", "resH", "resV", "pixelSize", "centerFactor", "cornerFactor", "testDistance"}

\* The two branches of the conditional exchanged.
nyLpmmSwapped(pixelSize) == IF Gt0(pixelSize) THEN Zero ELSE Div(One, Mul(Two, pixelSize))

\* 1 / pixelSize: the factor 2 left out.
nyLpmmOne(pixelSize) == IF Gt0(pixelSize) THEN Div(One, pixelSize) ELSE Zero

\* line 41: const nyLpmm = pixelSize > 0 ? 1 / (2 * pixelSize) : 0
nyLpmm(pixelSize) == IF Gt0(pixelSize) THEN Div(One, Mul(Two, pixelSize)) ELSE Zero

\* line 42
nyCyclePixel == Half

\* The guard with the tests of pixelSize and efl left out.
guardFactorOnly(factor, pixelSize, efl) == Le0(factor)

\* The guard with < written for <=.
guardStrict(factor, pixelSize, efl) ==
    (factor.kind # "nan" /\ factor.n < 0) \/ (pixelSize.kind # "nan" /\ pixelSize.n < 0)
        \/ (efl.kind # "nan" /\ efl.n < 0)

\* line 45: the degenerate-input guard of calculatePoint
guard(factor, pixelSize, efl) == Le0(factor) \/ Le0(pixelSize) \/ Le0(efl)

\* lines 46-57: the point returned when the guard is taken
zeroPoint(factor) ==
    [factor |-> factor, freqCp |-> Zero, freqLpmm |-> Zero,
     sensorCycleWidth |-> Zero, sensorLineWidth |-> Zero, halfFov |-> ZeroDeg,
     objectLpWidth |-> Zero, objectLineWidth |-> Zero, tvlH |-> Zero, tvlV |-> Zero]

\* line 63
freqLpmm(ny, factor) == Div(ny, factor)

\* 1 / factor: the Nyquist frequency of 0.5 cycles per pixel taken for 1.
freqCpOne(factor) == Div(One, factor)

\* line 66
freqCp(factor) == Div(Half, factor)

\* line 69
sensorCycleWidth(freq) == Div(One, freq)

\* The halving left out: the line as wide as the cycle.
sensorLineWidthFull(cycleWidth) == cycleWidth

\* line 70
sensorLineWidth(cycleWidth) == Div(cycleWidth, Two)

\* line 75
halfFov(lineWidth, efl) == AtanDeg(Div(lineWidth, efl))

\* The quotient inverted: efl / testDistance.
magnificationDirect(testDistance, efl) == Div(efl, testDistance)

\* line 86
magnificationInv(testDistance, efl) == Div(testDistance, efl)

\* line 89
projectedHalfCycle(lineWidth, magInv) == Mul(lineWidth, magInv)

\* The projected full cycle, which the name of the field suggests.
objectLpWidthFull(projected) == Mul(projected, Two)

\* line 92
objectLpWidth(projected) == projected

\* line 93
objectLineWidth(projected) == Div(projected, Two)

\* res / factor: the factor 2 left out.
tvlNoTwo(res, factor) == Div(res, factor)

\* lines 98-99: res / (factor * 2)
tvl(res, factor) == Div(res, Mul(factor, Two))

\* tvlH computed from resV, as tvlV is.
computedPointSameRes(factor, in, ny) ==
    LET freq      == freqLpmm(ny, factor)
        cycle     == sensorCycleWidth(freq)
        line      == sensorLineWidth(cycle)
        projected == projectedHalfCycle(line, magnificationInv(in.testDistance, in.efl))
    IN  [factor |-> factor, freqCp |-> freqCp(factor), freqLpmm |-> freq,
         sensorCycleWidth |-> cycle, sensorLineWidth |-> line,
         halfFov |-> halfFov(line, in.efl),
         objectLpWidth |-> objectLpWidth(projected),
         objectLineWidth |-> objectLineWidth(projected),
         tvlH |-> tvl(in.resV, factor), tvlV |-> tvl(in.resV, factor)]

\* lines 60-112: the point computed when the guard is not taken
computedPoint(factor, in, ny) ==
    LET freq      == freqLpmm(ny, factor)
        cycle     == sensorCycleWidth(freq)
        line      == sensorLineWidth(cycle)
        projected == projectedHalfCycle(line, magnificationInv(in.testDistance, in.efl))
    IN  [factor |-> factor, freqCp |-> freqCp(factor), freqLpmm |-> freq,
         sensorCycleWidth |-> cycle, sensorLineWidth |-> line,
         halfFov |-> halfFov(line, in.efl),
         objectLpWidth |-> objectLpWidth(projected),
         objectLineWidth |-> objectLineWidth(projected),
         tvlH |-> tvl(in.resH, factor), tvlV |-> tvl(in.resV, factor)]

\* lines 44-113
calculatePoint(factor, in, ny) ==
    IF guard(factor, in.pixelSize, in.efl) THEN zeroPoint(factor)
    ELSE computedPoint(factor, in, ny)

\* lines 36-121: the value of results for the input record in
computeAnalysis(in) ==
    LET ny == nyLpmm(in.pixelSize)
    IN  [nyLpmm |-> ny, nyCyclePixel |-> nyCyclePixel,
         center |-> calculatePoint(in.centerFactor, in, ny),
         corner |-> calculatePoint(in.cornerFactor, in, ny)]

(***************************************************************************)
(* parseFloat (line 29).  A text is a sequence of one-character strings.   *)
(* parseFloat skips leading blanks and reads the longest prefix that is a  *)
(* decimal literal: an optional sign, then Infinity, or digits with an     *)
(* optional fraction, or a point followed by digits, then an optional      *)
(* exponent.  What follows the prefix is ignored; no prefix gives NaN.     *)
(***************************************************************************)
DigitChars == {"0", "1", "2", "3", "4", "5", "6", "7", "8", "9"}

DigitVal(c) ==
    CASE c = "0" -> 0 [] c = "1" -> 1 [] c = "2" -> 2 [] c = "3" -> 3 [] c = "4" -> 4
      [] c = "5" -> 5 [] c = "6" -> 6 [] c = "7" -> 7 [] c = "8" -> 8 [] c = "9" -> 9

\* The number of blanks of t from position i on.
RECURSIVE BlankRun(_, _)
BlankRun(t, i) == IF i <= Len(t) /\ t[i] = " " THEN 1 + BlankRun(t, i + 1) ELSE 0

\* The number of digits of t from position i on.
RECURSIVE DigitRun(_, _)
DigitRun(t, i) == IF i <= Len(t) /\ t[i] \in DigitChars THEN 1 + DigitRun(t, i + 1) ELSE 0

\* The value of the k digits of t from position i on, after the digits worth acc.
RECURSIVE DigitsValue(_, _, _, _)
DigitsValue(t, i, k, acc) ==
    IF k = 0 THEN acc ELSE DigitsValue(t, i + 1, k - 1, 10 * acc + DigitVal(t[i]))

IsSignAt(t, i) == i <= Len(t) /\ t[i] \in {"+", "-"}

InfinityText == <<"I", "n", "f", "i", "n", "i", "t", "y">>

parseFloat(t) ==
    LET start   == 1 + BlankRun(t, 1)
        negative == start <= Len(t) /\ t[start] = "-"
        i0      == IF IsSignAt(t, start) THEN start + 1 ELSE start
        intLen  == DigitRun(t, i0)
        hasPoint == i0 + intLen <= Len(t) /\ t[i0 + intLen] = "."
        fracLen == IF hasPoint THEN DigitRun(t, i0 + intLen + 1) ELSE 0
        \* the position after the mantissa
        j       == IF hasPoint /\ (intLen > 0 \/ fracLen > 0)
                   THEN i0 + intLen + 1 + fracLen ELSE i0 + intLen
        hasE    == j <= Len(t) /\ t[j] \in {"e", "E"}
        expNeg  == hasE /\ j + 1 <= Len(t) /\ t[j + 1] = "-"
        e0      == IF hasE /\ IsSignAt(t, j + 1) THEN j + 2 ELSE j + 1
        expLen  == IF hasE THEN DigitRun(t, e0) ELSE 0
        expAbs  == DigitsValue(t, e0, expLen, 0)
        exp     == IF expNeg THEN -expAbs ELSE expAbs
        mant    == DigitsValue(t, i0 + intLen + 1, fracLen, DigitsValue(t, i0, intLen, 0))
        signed  == IF negative THEN -mant ELSE mant
        scale   == exp - fracLen
    IN  IF Len(t) >= i0 + 7 /\ SubSeq(t, i0, i0 + 7) = InfinityText
        THEN Infinity(IF negative THEN -1 ELSE 1)
        ELSE IF intLen = 0 /\ fracLen = 0 THEN NaN
        ELSE IF scale >= 0 THEN Num(signed * (10 ^ scale), 1, 0)
        ELSE Num(signed, 10 ^ (-scale), 0)

(***************************************************************************)
(* The component: state, the handler and the two specifications.           *)
(***************************************************************************)
VARIABLES inputs, results, edits

vars == <<inputs, results, edits>>

\* lines 18-26: the initial input record
initialInputs ==
    [efl |-> Num(212, 100, 0), resH |-> Num(2560, 1, 0), resV |-> Num(1938, 1, 0),
     pixelSize |-> Num(2, 1000, 0), centerFactor |-> Num(3, 1, 0),
     cornerFactor |-> Num(4, 1, 0), testDistance |-> Num(500, 1, 0)]

\* The number of input-change events a behaviour of Spec makes.
MaxEdits == 2

\* The texts the input-change events carry.
Texts ==
    { <<>>, <<"-">>, <<"a", "b", "c">>,
      <<"0">>, <<"-", "1">>, <<"4">>, <<".", "5">>, <<"2", "e", "1">>,
      <<"0", ".", "0", "0", "4">>, <<"3", "p", "x">>, <<" ", "6", "e">>,
      InfinityText }

Init ==
    /\ inputs = initialInputs
    /\ results = computeAnalysis(inputs)
    /\ edits = 0

\* The handler without line 32's isNaN test: the parsed number is stored as it is.
handleInputChangeRaw(field, value) ==
    /\ edits < MaxEdits
    /\ inputs' = [inputs EXCEPT ![field] = parseFloat(value)]
    /\ results' = computeAnalysis(inputs')
    /\ edits' = edits + 1

\* The handler with a memo that is never computed again (dependency [] at line 121).
handleInputChangeStale(field, value) ==
    /\ edits < MaxEdits
    /\ LET numVal == parseFloat(value)
       IN  inputs' = [inputs EXCEPT ![field] = IF IsNaN(numVal) THEN Zero ELSE numVal]
    /\ results' = results
    /\ edits' = edits + 1

\* lines 28-34, and the re-render that follows the state change: useMemo (line 36,
\* dependency [inputs], line 121) computes results again from the new record.
handleInputChange(field, value) ==
    /\ edits < MaxEdits
    /\ LET numVal == parseFloat(value)
       IN  inputs' = [inputs EXCEPT ![field] = IF IsNaN(numVal) THEN Zero ELSE numVal]
    /\ results' = computeAnalysis(inputs')
    /\ edits' = edits + 1

Next == \E field \in Fields, value \in Texts : handleInputChange(field, value)

Spec == Init /\ [][Next]_vars

(***************************************************************************)
(* The engine as a pure function of the input record: SpecEngine draws     *)
(* the record from EngineValues, field by field, and evaluates the engine  *)
(* on it.  The values are the ordinary ones of the reference case and      *)
(* their doublings, zero and negative values, the powers of two at the two *)
(* ends of the range of number, and those at the ends of the safe range.   *)
(***************************************************************************)
\* The doublings applied to a value, and the distance kept from the ends of the range.
MaxShift == 1

Shifts == 0..MaxShift

Doublings(n, d) == { Num(n, d, k) : k \in Shifts }

Largest == { Num(1, 1, MaxExp - k) : k \in Shifts }

Smallest == { Num(1, 1, MinExp + k) : k \in Shifts }

MinusOne == Num(-1, 1, 0)

\* The exponent up to which no product or quotient of the engine leaves the range:
\* with every input between 2^-SafeExp and 2^SafeExp the largest result is at most
\* 2^(4 * SafeExp) and the smallest at least 2^-(4 * SafeExp + 1).
SafeExp == (MaxExp - 3) \div 4

EngineValues(field) ==
    CASE field = "efl"          -> {MinusOne, Zero, Num(212, 100, 0), Num(1, 1, -SafeExp)}
      [] field = "resH"         -> {Zero} \cup Doublings(-1, 1) \cup Doublings(2560, 1) \cup Smallest
      [] field = "resV"         -> {MinusOne, Num(1938, 1, 0)}
      [] field = "pixelSize"    -> {MinusOne, Zero, Num(1, 1, SafeExp)}
                                       \cup Doublings(2, 1000) \cup Largest \cup Smallest
      [] field = "centerFactor" -> {MinusOne, Num(3, 1, 0), Num(1, 1, SafeExp), Num(1, 1, MinExp)}
      [] field = "cornerFactor" -> {Zero, One, Num(1, 1, MaxExp)}
      [] field = "testDistance" -> {Zero, Num(500, 1, 0), Num(1, 1, SafeExp)}

EngineInit ==
    /\ inputs \in [efl : EngineValues("efl"), resH : EngineValues("resH"),
                    resV : EngineValues("resV"), pixelSize : EngineValues("pixelSize"),
                    centerFactor : EngineValues("centerFactor"),
                    cornerFactor : EngineValues("cornerFactor"),
                    testDistance : EngineValues("testDistance")]
    /\ results = computeAnalysis(inputs)
    /\ edits = 0

\* The engine evaluated on the record that differs from the current one in one field.
evaluate(field, value) ==
    /\ inputs' = [inputs EXCEPT ![field] = value]
    /\ results' = computeAnalysis(inputs')
    /\ UNCHANGED edits

EngineNext == \E field \in Fields : \E value \in EngineValues(field) : evaluate(field, value)

SpecEngine == EngineInit /\ [][EngineNext]_vars

(***************************************************************************)
(* Vocabulary of the properties.                                           *)
(***************************************************************************)
Points == {"center", "corner"}

\* The factor the point p is evaluated for.
factorOf(in, p) == IF p = "center" THEN in.centerFactor ELSE in.cornerFactor

\* The numeric fields of a point other than factor and halfFov.
PlainFields ==
    {"freqCp", "freqLpmm", "sensorCycleWidth", "sensorLineWidth",
     "objectLpWidth", "objectLineWidth", "tvlH", "tvlV"}

\* The condition of the guard as the specification words it.
Degenerate(in, p) == Le0(factorOf(in, p)) \/ Le0(in.pixelSize) \/ Le0(in.efl)

\* The point p is computed, not zeroed.
Computed(in, p) == Gt0(factorOf(in, p)) /\ Gt0(in.pixelSize) /\ Gt0(in.efl)

\* x is finite and 2^-SafeExp <= |x| <= 2^SafeExp.
MagnitudeInSafeRange(x) ==
    /\ IsFinite(x) /\ x.n # 0
    /\ MagnitudeGeq(x.n, x.d, x.e, -SafeExp)
    /\ (MagnitudeGeq(x.n, x.d, x.e, SafeExp) => Abs(x.n) = 1 /\ x.d = 1 /\ x.e = SafeExp)

\* x is finite and 2^-SafeExp <= x <= 2^SafeExp.
InSafeRange(x) == MagnitudeInSafeRange(x) /\ x.n > 0

(***************************************************************************)
(* C1.  For each point, if its factor, pixelSize or efl is <= 0, the nine  *)
(* derived fields of the point are all 0 and its factor field is the given *)
(* factor, whatever resH, resV and testDistance are.                       *)
(***************************************************************************)
C1_GuardZeroes ==
    \A p \in Points :
        Degenerate(inputs, p) =>
            /\ \A f \in PlainFields : results[p][f] = Zero
            /\ results[p].halfFov = ZeroDeg
            /\ results[p].factor = factorOf(inputs, p)

\* The guard is taken through pixelSize alone, for a positive factor that is kept,
\* with resH and testDistance non-zero.
C1_Witness ==
    /\ Gt0(inputs.centerFactor) /\ Gt0(inputs.efl) /\ Le0(inputs.pixelSize)
    /\ Gt0(inputs.resH) /\ Gt0(inputs.testDistance)
    /\ results.center.factor = inputs.centerFactor
    /\ results.center.tvlH = Zero

(***************************************************************************)
(* C2.  As claimed: for every input record the engine returns a complete   *)
(* result, and whenever the guard is not taken no division has a zero      *)
(* divisor: freqLpmm, efl, factor * 2 and 2 * pixelSize are non-zero; and  *)
(* pixelSize = 0 gives nyLpmm = 0 and zeroed points.                       *)
(***************************************************************************)
ResultShape ==
    /\ DOMAIN results = {"nyLpmm", "nyCyclePixel", "center", "corner"}
    /\ \A p \in Points : DOMAIN results[p] = PlainFields \cup {"factor", "halfFov"}

ZeroPixelSizeZeroes ==
    inputs.pixelSize = Zero =>
        /\ results.nyLpmm = Zero
        /\ \A p \in Points : results[p].sensorCycleWidth = Zero /\ results[p].freqLpmm = Zero

\* C2 (as claimed): a complete result for every record, no zero divisor at a computed
\* point, and pixelSize = 0 gives nyLpmm = 0 and zeroed points.
C2_NoZeroDivisor ==
    /\ ResultShape
    /\ ZeroPixelSizeZeroes
    /\ \A p \in Points :
          Computed(inputs, p) =>
              /\ results[p].freqLpmm # Zero
              /\ inputs.efl # Zero
              /\ Mul(factorOf(inputs, p), Two) # Zero
              /\ Mul(Two, inputs.pixelSize) # Zero

(***************************************************************************)
(* C2 as amended: the same, with freqLpmm non-zero only for pixelSize and  *)
(* the factor between 2^-SafeExp and 2^SafeExp.  Outside that range        *)
(* 2 * pixelSize overflows or nyLpmm / factor underflows, freqLpmm is 0    *)
(* and sensorCycleWidth = 1 / 0 is Infinity.                               *)
(***************************************************************************)
C2_NoZeroDivisorInRange ==
    /\ ResultShape
    /\ ZeroPixelSizeZeroes
    /\ \A p \in Points :
          Computed(inputs, p) =>
              /\ inputs.efl # Zero
              /\ Mul(factorOf(inputs, p), Two) # Zero
              /\ Mul(Two, inputs.pixelSize) # Zero
              /\ InSafeRange(inputs.pixelSize) /\ InSafeRange(factorOf(inputs, p))
                     => results[p].freqLpmm # Zero /\ IsFinite(results[p].freqLpmm)
              /\ results[p].freqLpmm = Zero => results[p].sensorCycleWidth = PosInf

\* A computed point at the edge of the safe range: pixelSize and the factor are both
\* 2^SafeExp, and freqLpmm, the divisor of line 69, is small and not zero.
C2_Witness ==
    /\ Computed(inputs, "center")
    /\ inputs.pixelSize = Num(1, 1, SafeExp) /\ inputs.centerFactor = Num(1, 1, SafeExp)
    /\ results.center.freqLpmm = Num(1, 1, -(2 * SafeExp + 1))
    /\ results.center.sensorCycleWidth = Num(1, 1, 2 * SafeExp + 1)

(***************************************************************************)
(* C3.  As claimed: when the seven inputs are all > 0, every field of the  *)
(* result is finite and non-negative.                                      *)
(***************************************************************************)
AllPositive(in) == \A f \in Fields : Gt0(in[f])

FiniteNonNegative(x) == IsFinite(x) /\ x.n >= 0

\* An angle is finite unless it is NaN; it is >= 0 when its tangent is.
FiniteNonNegativeDeg(a) == ~IsNaN(a.tan) /\ a.tan.n >= 0

AllFieldsFiniteNonNegative(res) ==
    /\ FiniteNonNegative(res.nyLpmm)
    /\ FiniteNonNegative(res.nyCyclePixel)
    /\ \A p \in Points :
          /\ \A f \in PlainFields \cup {"factor"} : FiniteNonNegative(res[p][f])
          /\ FiniteNonNegativeDeg(res[p].halfFov)

\* C3 (as claimed): all seven inputs > 0 give only finite, non-negative fields.
C3_PositiveInputsFinite == AllPositive(inputs) => AllFieldsFiniteNonNegative(results)

(***************************************************************************)
(* C3 as amended: when the seven inputs all lie between 2^-SafeExp and     *)
(* 2^SafeExp (SafeExp = 255), every field of the result is finite and      *)
(* non-negative.                                                           *)
(***************************************************************************)
SafeInputs(in) == \A f \in Fields : InSafeRange(in[f])

\* C3 (as amended): all seven inputs in the safe range give only finite, non-negative fields.
C3_SafeInputsFinite == SafeInputs(inputs) => AllFieldsFiniteNonNegative(results)

\* The four extreme inputs of the safe range together: the largest projected width.
C3_Witness ==
    /\ SafeInputs(inputs)
    /\ inputs.pixelSize = Num(1, 1, SafeExp) /\ inputs.centerFactor = Num(1, 1, SafeExp)
    /\ inputs.efl = Num(1, 1, -SafeExp) /\ inputs.testDistance = Num(1, 1, SafeExp)
    /\ results.center.objectLpWidth = Num(1, 1, 4 * SafeExp)

(***************************************************************************)
(* C4.  nyLpmm is 1 / (2 * pixelSize) when pixelSize > 0 and 0 otherwise,  *)
(* a function of pixelSize alone (not zeroed with the points when efl or a *)
(* factor is <= 0); nyCyclePixel is 0.5 always.                            *)
(***************************************************************************)
C4_Nyquist ==
    /\ results.nyLpmm =
          IF inputs.pixelSize.kind # "nan" /\ inputs.pixelSize.n > 0
          THEN Div(Num(1, 1, 0), Mul(Num(2, 1, 0), inputs.pixelSize))
          ELSE Zero
    /\ results.nyCyclePixel = Num(5, 10, 0)

\* efl and both factors are <= 0, so both points are zeroed, and nyLpmm is 250.
C4_Witness ==
    /\ Le0(inputs.efl) /\ Le0(inputs.centerFactor) /\ Le0(inputs.cornerFactor)
    /\ inputs.pixelSize = Num(2, 1000, 0)
    /\ results.nyLpmm = Num(250, 1, 0)
    /\ results.center.freqLpmm = Zero

(***************************************************************************)
(* C5.  As claimed: for a computed point, freqLpmm = nyLpmm / f,           *)
(* freqCp = 0.5 / f, sensorCycleWidth = 1 / freqLpmm, sensorLineWidth =    *)
(* sensorCycleWidth / 2, and equivalently sensorCycleWidth =               *)
(* 2 * pixelSize * f and sensorLineWidth = pixelSize * f.                  *)
(***************************************************************************)
PointFormulas(in, res, p) ==
    /\ res[p].freqLpmm = Div(res.nyLpmm, factorOf(in, p))
    /\ res[p].freqCp = Div(Num(5, 10, 0), factorOf(in, p))
    /\ res[p].sensorCycleWidth = Div(Num(1, 1, 0), res[p].freqLpmm)
    /\ res[p].sensorLineWidth = Div(res[p].sensorCycleWidth, Num(2, 1, 0))

ClosedForms(in, res, p) ==
    /\ res[p].sensorCycleWidth = Mul(Mul(Num(2, 1, 0), in.pixelSize), factorOf(in, p))
    /\ res[p].sensorLineWidth = Mul(in.pixelSize, factorOf(in, p))

\* C5 (as claimed): the four formulas and the two closed forms, at every computed point.
C5_PointFrequencies ==
    \A p \in Points :
        Computed(inputs, p) => PointFormulas(inputs, results, p) /\ ClosedForms(inputs, results, p)

(***************************************************************************)
(* C5 as amended: the four formulas hold for every computed point; the     *)
(* closed forms 2 * pixelSize * f and pixelSize * f hold when pixelSize    *)
(* and f lie between 2^-SafeExp and 2^SafeExp.                             *)
(***************************************************************************)
C5_PointFrequenciesInRange ==
    \A p \in Points :
        Computed(inputs, p) =>
            /\ PointFormulas(inputs, results, p)
            /\ InSafeRange(inputs.pixelSize) /\ InSafeRange(factorOf(inputs, p))
                   => ClosedForms(inputs, results, p)

\* The reference pixel size and factor, with efl, resH and testDistance not those of
\* the reference case: the cycle is 0.012 mm wide and the line 0.006 mm.
C5_Witness ==
    /\ Computed(inputs, "center")
    /\ inputs.pixelSize = Num(2, 1000, 0) /\ inputs.centerFactor = Num(3, 1, 0)
    /\ inputs.efl # Num(212, 100, 0) /\ inputs.resH # Num(2560, 1, 0)
    /\ inputs.testDistance # Num(500, 1, 0)
    /\ results.center.sensorCycleWidth = Num(12, 1000, 0)
    /\ results.center.sensorLineWidth = Num(6, 1000, 0)
    /\ results.center.freqCp = Num(1, 6, 0)

(***************************************************************************)
(* C6.  For a computed point, objectLpWidth is sensorLineWidth *            *)
(* (testDistance / efl), the projected half cycle, and objectLineWidth is  *)
(* half of objectLpWidth.                                                  *)
(***************************************************************************)
C6_ObjectPlane ==
    \A p \in Points :
        Computed(inputs, p) =>
            /\ results[p].objectLpWidth =
                   Mul(results[p].sensorLineWidth, Div(inputs.testDistance, inputs.efl))
            /\ results[p].objectLineWidth = Div(results[p].objectLpWidth, Num(2, 1, 0))

\* The reference case at the centre: 0.006 * 500 / 2.12 = 75/53 mm, which is not the
\* projected full cycle 150/53 mm, and the line is 75/106 mm.
C6_Witness ==
    /\ Computed(inputs, "center")
    /\ inputs.pixelSize = Num(2, 1000, 0) /\ inputs.centerFactor = Num(3, 1, 0)
    /\ inputs.efl = Num(212, 100, 0) /\ inputs.testDistance = Num(500, 1, 0)
    /\ results.center.objectLpWidth = Num(75, 53, 0)
    /\ results.center.objectLpWidth #
           Mul(results.center.sensorCycleWidth, Div(inputs.testDistance, inputs.efl))
    /\ results.center.objectLineWidth = Num(75, 106, 0)

(***************************************************************************)
(* C7.  As claimed: a step that sets testDistance from a positive value to *)
(* 0, with efl, pixelSize and both factors > 0, gives objectLpWidth =      *)
(* objectLineWidth = 0 at both points and changes no other field of the    *)
(* result.                                                                 *)
(***************************************************************************)
OtherFields == (PlainFields \cup {"factor", "halfFov"}) \ {"objectLpWidth", "objectLineWidth"}

TestDistanceZeroed ==
    /\ Gt0(inputs.testDistance)
    /\ inputs' = [inputs EXCEPT !.testDistance = Zero]
    /\ Computed(inputs, "center") /\ Computed(inputs, "corner")

OthersKept ==
    /\ results'.nyLpmm = results.nyLpmm
    /\ results'.nyCyclePixel = results.nyCyclePixel
    /\ \A p \in Points : \A f \in OtherFields : results'[p][f] = results[p][f]

\* C7 (as claimed): setting testDistance to 0 zeroes the two projected widths of both
\* points and keeps every other field.
C7_ZeroTestDistance ==
    [][TestDistanceZeroed =>
          /\ OthersKept
          /\ \A p \in Points :
                results'[p].objectLpWidth = Zero /\ results'[p].objectLineWidth = Zero]_vars

(***************************************************************************)
(* C7 as amended: the same, with objectLpWidth = objectLineWidth = 0 at    *)
(* each point whose sensorLineWidth is finite; at a point whose            *)
(* sensorLineWidth is Infinity both are NaN (Infinity * 0).                *)
(***************************************************************************)
C7_ZeroTestDistanceFinite ==
    [][TestDistanceZeroed =>
          /\ OthersKept
          /\ \A p \in Points :
                LET width == IF IsFinite(results[p].sensorLineWidth) THEN Zero ELSE NaN
                IN  results'[p].objectLpWidth = width /\ results'[p].objectLineWidth = width]_vars

\* testDistance is 0, both points are computed with a finite, non-zero line width and
\* a non-zero half field of view, and the projected widths are 0.
C7_Witness ==
    /\ inputs.testDistance = Zero
    /\ \A p \in Points :
          /\ Computed(inputs, p)
          /\ IsFinite(results[p].sensorLineWidth) /\ results[p].sensorLineWidth # Zero
          /\ results[p].halfFov # ZeroDeg
          /\ results[p].objectLpWidth = Zero /\ results[p].objectLineWidth = Zero

(***************************************************************************)
(* C8.  For a computed point, tvlH = resH / (f * 2) and tvlV =             *)
(* resV / (f * 2), for any resH and resV, zero and negative included; the  *)
(* counts are functions of the resolution and the factor alone.            *)
(***************************************************************************)
C8_TvLines ==
    \A p \in Points :
        Computed(inputs, p) =>
            /\ results[p].tvlH = Div(inputs.resH, Mul(factorOf(inputs, p), Num(2, 1, 0)))
            /\ results[p].tvlV = Div(inputs.resV, Mul(factorOf(inputs, p), Num(2, 1, 0)))

\* A negative resH: -1 / (3 * 2) = -1/6, with 1938 / 6 = 323 and testDistance = 0.
C8_Witness ==
    /\ Computed(inputs, "center")
    /\ inputs.resH = Num(-1, 1, 0) /\ inputs.centerFactor = Num(3, 1, 0)
    /\ inputs.resV = Num(1938, 1, 0) /\ inputs.testDistance = Zero
    /\ results.center.tvlH = Num(-1, 6, 0)
    /\ results.center.tvlV = Num(323, 1, 0)

(***************************************************************************)
(* C9.  As claimed: a step that doubles a positive pixelSize and nothing   *)
(* else halves nyLpmm; a step that doubles resH and nothing else doubles   *)
(* tvlH of each point.                                                     *)
(***************************************************************************)
PixelSizeDoubled ==
    /\ Gt0(inputs.pixelSize)
    /\ inputs' = [inputs EXCEPT !.pixelSize = Mul(Num(2, 1, 0), inputs.pixelSize)]

ResHDoubled ==
    /\ inputs.resH # Zero
    /\ inputs' = [inputs EXCEPT !.resH = Mul(Num(2, 1, 0), inputs.resH)]

\* C9 (as claimed): doubling pixelSize halves nyLpmm, doubling resH doubles tvlH.
C9_Scaling ==
    [][/\ PixelSizeDoubled => results'.nyLpmm = Div(results.nyLpmm, Num(2, 1, 0))
       /\ ResHDoubled =>
             \A p \in Points : results'[p].tvlH = Mul(Num(2, 1, 0), results[p].tvlH)]_vars

(***************************************************************************)
(* C9 as amended: doubling pixelSize halves nyLpmm when pixelSize and its  *)
(* double lie between 2^-SafeExp and 2^SafeExp; doubling resH doubles tvlH *)
(* of each point that is zeroed, or whose factor lies between 2^-SafeExp   *)
(* and 2^SafeExp with the magnitudes of resH and the doubled resH.         *)
(***************************************************************************)
C9_ScalingInRange ==
    [][/\ PixelSizeDoubled /\ InSafeRange(inputs.pixelSize) /\ InSafeRange(inputs'.pixelSize)
             => results'.nyLpmm = Div(results.nyLpmm, Num(2, 1, 0))
       /\ ResHDoubled =>
             \A p \in Points :
                 (\/ Degenerate(inputs, p)
                  \/ /\ MagnitudeInSafeRange(inputs.resH) /\ MagnitudeInSafeRange(inputs'.resH)
                     /\ InSafeRange(factorOf(inputs, p)))
                 => results'[p].tvlH = Mul(Num(2, 1, 0), results[p].tvlH)]_vars

\* The doubled record: pixelSize 0.004 with nyLpmm 125 (250 for 0.002), and resH 5120
\* with tvlH 5120 / 6 at the centre (2560 / 6 for 2560).
C9_Witness ==
    /\ inputs.pixelSize = Num(4, 1000, 0) /\ results.nyLpmm = Num(125, 1, 0)
    /\ inputs.resH = Num(5120, 1, 0) /\ inputs.centerFactor = Num(3, 1, 0)
    /\ Computed(inputs, "center")
    /\ results.center.tvlH = Num(5120, 6, 0)

(***************************************************************************)
(* C10.  The calculator starts from the reference case, and for the        *)
(* reference case the engine gives nyLpmm = 250, center.freqLpmm = 250/3,  *)
(* center.freqCp = 1/6, center.tvlH = 2560/6, center.tvlV = 323,           *)
(* corner.freqLpmm = 62.5 and corner.tvlH = 320.                           *)
(***************************************************************************)
ReferenceCase ==
    [efl |-> Num(53, 25, 0), resH |-> Num(2560, 1, 0), resV |-> Num(1938, 1, 0),
     pixelSize |-> Num(1, 500, 0), centerFactor |-> Num(3, 1, 0),
     cornerFactor |-> Num(4, 1, 0), testDistance |-> Num(500, 1, 0)]

\* C10: the first record is the reference case, and the reference case gives the
\* listed values.
C10_ReferenceCase ==
    /\ edits = 0 => inputs = ReferenceCase
    /\ inputs = ReferenceCase =>
          /\ results.nyLpmm = Num(250, 1, 0)
          /\ results.center.freqLpmm = Num(250, 3, 0)
          /\ results.center.freqCp = Num(1, 6, 0)
          /\ results.center.tvlH = Num(2560, 6, 0)
          /\ results.center.tvlV = Num(323, 1, 0)
          /\ results.corner.freqLpmm = Num(625, 10, 0)
          /\ results.corner.tvlH = Num(320, 1, 0)

\* The first render: no input has changed and the reference results are shown.
C10_Witness ==
    /\ edits = 0
    /\ inputs.pixelSize = Num(2, 1000, 0) /\ inputs.efl = Num(212, 100, 0)
    /\ results.nyLpmm = Num(250, 1, 0)
    /\ results.center.tvlV = Num(323, 1, 0)
    /\ results.corner.tvlH = Num(320, 1, 0)

(***************************************************************************)
(* C11.  An input-change event sets the named field, and only it, to the   *)
(* number parsed from the text, or to 0 when the text has no number in     *)
(* front; so no field of the input record is ever NaN.                     *)
(***************************************************************************)
\* The fields other than field are the same before and after the step.
SetsOnly(field) == \A g \in Fields \ {field} : inputs'[g] = inputs[g]

\* After the step the field holds what the text parses to, 0 standing for NaN.
ParsedOrZero(field, value) ==
    IF parseFloat(value).kind = "nan"
    THEN inputs'[field] = Zero
    ELSE inputs'[field] = parseFloat(value)

NoNaNInput == \A f \in Fields : inputs[f].kind # "nan"

\* C11: every step is the change of one named field to the parsed number or 0 with
\* the other six fields kept, and no field of the input record is ever NaN.
C11_InputChange ==
    /\ []NoNaNInput
    /\ [][\E field \in Fields, value \in Texts :
              SetsOnly(field) /\ ParsedOrZero(field, value)]_vars

\* Two events have acted: an unparseable text left 0 in efl, "3px" left 3 in resH,
\* and the other five fields are those of the first record.
C11_Witness ==
    /\ edits = 2
    /\ inputs.efl = Zero
    /\ inputs.resH = Num(3, 1, 0)
    /\ \A g \in Fields \ {"efl", "resH"} : inputs[g] = initialInputs[g]

(***************************************************************************)
(* C12.  The result set shown is the engine applied in full to the current *)
(* input record: never the result of an earlier record, and a function of  *)
(* the current inputs alone, whatever changes led to them.                 *)
(***************************************************************************)
\* C12: in every state the results shown are computeAnalysis of the inputs held.
C12_ResultsCurrent == results = computeAnalysis(inputs)

\* Two events have acted, in either order (pixelSize "0.004" and centerFactor "4"):
\* the results shown are those of the new record, not of the first one.
C12_Witness ==
    /\ edits = 2
    /\ inputs.pixelSize = Num(4, 1000, 0)
    /\ inputs.centerFactor = Num(4, 1, 0)
    /\ results.nyLpmm = Num(125, 1, 0)
    /\ results.center.freqLpmm = Num(125, 4, 0)
    /\ results # computeAnalysis(initialInputs)

=============================================================================
